---- MODULE Spec2Model ----
(***************************************************************************)
(* A model of the CxKitty web worker manager: src/app.py (the routes),     *)
(* src/web/chaoxingWorker.py (ChaoxingWebConsole, ChaoxingProcess,         *)
(* GarbageCollector, Multitasking) and src/web/utils.py (check_timeout,    *)
(* ChaoxingWebPrompt).                                                     *)
(*                                                                         *)
(* The specifications share the variables:                                 *)
(*   SpecOut       one web-mode console: prints, get_output,               *)
(*                 get_update_output                                       *)
(*   SpecAsk       the prompt bridge: ask against concurrent send_value    *)
(*   SpecReg       the registry: get_process_id, heartbeats, the collector *)
(*   SpecLook      get_process_id against logins and the collector         *)
(*   SpecReap      one process through its states under the collector      *)
(*   SpecCreate    Multitasking.create_process with ids of the caller      *)
(*   SpecRun       ChaoxingProcess.run on two threads                      *)
(*   SpecStream    the /comm_stream generator and its client               *)
(*   SpecLive      silent processes under a fair collector                 *)
(*   SpecSweep     single sweeps of the collector over expired tasks       *)
(*   SpecScenario  creation at time 0, lookups at four and six minutes     *)
(*   SpecDead      the prompt bridge with the collector sweeping           *)
(*   SpecMono      one process: creation, ask, heartbeats, the collector   *)
(*   SpecQuiet     one process printing and read, with recorded heartbeats *)
(*   SpecBeat      heartbeats for ids in and out of the registry           *)
(* Python values: None is <<>> and a value v is <<v>> where a field is      *)
(* Optional; strings are TLA+ strings and + on strings is \o.              *)
(***************************************************************************)
EXTENDS Integers, Sequences, FiniteSets, TLC

VARIABLES
    now,                \* time.time(), in whole seconds
    tasks,              \* Multitasking.tasks: the list of processes, by id
    made,               \* how many ChaoxingProcess objects were constructed
    phone,              \* ChaoxingProcess.phone, per process
    state,              \* ChaoxingProcess.state, per process
    last_refresh_time,  \* ChaoxingProcess.last_refresh_time, per process
    alive,              \* ChaoxingProcess.alive, per process
    output_collector,   \* ChaoxingWebConsole.output_collector, per process
    last_output,        \* ChaoxingWebConsole.last_output, per process
    input_queue,        \* ChaoxingWebPrompt.input_queue: id -> None or value
    printed,            \* history: every text printed on a console, in order
    script,             \* input: the texts the worker of SpecOut prints, cyclically
    poll,               \* history: what happened on a console since its last get_update_output
    last_call,          \* history: the last completed call and what it returned
    wk,                 \* per process, where its worker thread stands inside ask
    sent,               \* how many send_value requests were started
    inflight,           \* send_value requests between their check and their write
    delivered,          \* history: the values ask returned as answers, in order
    posted,             \* history: the values send_value wrote into a slot
    gc,                 \* the GarbageCollector thread: where it stands in run
    created_for,        \* history: the phone of the request that created a process
    process_id_of,      \* ChaoxingProcess.process_id, per process object
    run,                \* per process, where its thread stands in ChaoxingProcess.run
    stream,             \* the comm_stream_generator of a /comm_stream request
    sweep               \* history: the collector's sweep in progress and its last whole one

procVars == <<tasks, made, phone, state, last_refresh_time, alive>>
outVars  == <<output_collector, last_output, printed, poll>>
askVars  == <<input_queue, wk, sent, inflight, delivered, posted>>
regVars  == <<gc, created_for>>
restVars == <<script, process_id_of, run, stream, sweep>>
vars == <<now, procVars, outVars, askVars, regVars, restVars, last_call>>

(***************************************************************************)
(* Bounds of the model.                                                    *)
(***************************************************************************)
MaxProcs == 2
MaxPrints == 52
MaxScript == 2
MaxQuestions == 2
MaxSends == 2
MaxReads == 3

ProcIds == 1..MaxProcs
Texts == {"A", "B"}

\* deque(maxlen=50)
maxlen == 50

None == <<>>
Some(v) == <<v>>

INIT == "INIT"
RUNNING == "RUNNING"
SUCCESS == "SUCCESS"
Failed == "Failed"
ChaoxingProcessState == {INIT, RUNNING, SUCCESS, Failed}

(***************************************************************************)
(* ChaoxingWebConsole                                                      *)
(***************************************************************************)

\* str(soup.body.pre.code): the exported html of one print, a <code> element
\* around the printed text.
Render(text) == "<code>" \o text \o "</code>"

\* A mutant of collect_output: a full buffer refuses the new fragment.
collect_output_keep_oldest(buf, text) ==
    IF Len(buf) >= maxlen THEN buf ELSE Append(buf, Render(text))

\* collect_output appends the rendered fragment to deque(maxlen=50): a full
\* deque drops its leftmost item first.
collect_output(buf, text) ==
    IF Len(buf) >= maxlen
    THEN Append(Tail(buf), Render(text))
    ELSE Append(buf, Render(text))

RECURSIVE Join(_)
\* "".join(seq)
Join(seq) == IF seq = <<>> THEN "" ELSE Head(seq) \o Join(Tail(seq))

RECURSIVE Reverse(_)
Reverse(seq) == IF seq = <<>> THEN <<>> ELSE Append(Reverse(Tail(seq)), Head(seq))

\* A mutant of get_output: newest fragment first.
get_output_newest_first(buf) == Join(Reverse(buf))

\* get_output in web mode: "".join(self.output_collector)
get_output(buf) == Join(buf)

\* A mutant of get_update_output: an unchanged output is resent.
get_update_output_resend(last, buf) ==
    [ret |-> get_output(buf), last_output |-> get_output(buf)]

\* A mutant of get_update_output: only a longer output counts as an update.
get_update_output_longer(last, buf) ==
    LET output == IF Len(get_output(buf)) > Len(last) THEN get_output(buf) ELSE ""
    IN  [ret |-> output, last_output |-> output]

\* get_update_output in web mode: the returned string and the new last_output.
\* The comparison's result overwrites output BEFORE last_output is assigned.
get_update_output(last, buf) ==
    LET output == IF last = get_output(buf) THEN "" ELSE get_output(buf)
    IN  [ret |-> output, last_output |-> output]

(***************************************************************************)
(* SpecOut: process 1 exists in web mode; its worker prints the texts of   *)
(* script over and over while request threads read the console.            *)
(***************************************************************************)
Scripts == UNION {[1..n -> Texts] : n \in 1..MaxScript}

NoCall == [op |-> "none", pid |-> 0, ret |-> None, pre |-> None]

\* poll[p]: since is "start" (no get_update_output yet), "polled" (no print
\* since the last get_update_output) or "printed"; evicted says a print since
\* the last get_update_output dropped a fragment; reported is the last
\* non-empty string get_update_output returned.
NoPoll == [since |-> "start", evicted |-> FALSE, reported |-> ""]

InitProc ==
    /\ now = 0
    /\ tasks = <<1>>
    /\ made = 1
    /\ phone = [p \in ProcIds |-> None]
    /\ state = [p \in ProcIds |-> INIT]
    /\ last_refresh_time = [p \in ProcIds |-> 0]
    /\ alive = [p \in ProcIds |-> TRUE]

InitOutVars ==
    /\ output_collector = [p \in ProcIds |-> <<>>]
    /\ last_output = [p \in ProcIds |-> ""]
    /\ printed = [p \in ProcIds |-> <<>>]
    /\ poll = [p \in ProcIds |-> NoPoll]

InitAskVars ==
    /\ input_queue = << >>
    /\ wk = [p \in ProcIds |-> [pc |-> "idle", q |-> 0, ret |-> None]]
    /\ sent = 0
    /\ inflight = {}
    /\ delivered = <<>>
    /\ posted = {}

InitRegVars ==
    /\ gc = [pc |-> "sleep", idx |-> 0, task |-> 0]
    /\ created_for = [p \in ProcIds |-> None]

\* No /comm_stream request was made.
NoStream == [pc |-> "closed", lost |-> FALSE, reads |-> 0, msgs |-> 0]

\* The collector has made no sweep: woke is the instant the sweep in
\* progress began, due the tasks that were timed out at that instant with
\* their states, removed whether the sweep has removed a task, and clean the
\* instant at which the last sweep that removed nothing began.
Never == -1
NoSweep == [woke |-> Never, due |-> {}, removed |-> FALSE, clean |-> Never]

\* Each process object has its own id; its thread was started and has not
\* yet executed the first line of run.
InitRestVars ==
    /\ process_id_of = [p \in ProcIds |-> p]
    /\ run = [p \in ProcIds |-> [pc |-> "start", how |-> "none"]]
    /\ stream = NoStream
    /\ sweep = NoSweep

InitOut ==
    /\ InitProc
    /\ InitRegVars
    /\ InitRestVars
    /\ InitOutVars
    /\ InitAskVars
    /\ script \in Scripts
    /\ last_call = NoCall

\* ChaoxingWebConsole.print in web mode: capture, then collect_output.
ConsolePrint(p, text) ==
    /\ output_collector' =
          [output_collector EXCEPT ![p] = collect_output(@, text)]
    /\ printed' = [printed EXCEPT ![p] = Append(@, text)]
    /\ poll' = [poll EXCEPT ![p].since = "printed",
                            ![p].evicted =
                                \/ Len(output_collector[p]) >= maxlen
                                \/ (poll[p].since = "printed" /\ @)]
    /\ UNCHANGED last_output

\* The worker thread of process 1 prints the next text of its script.
WorkerPrint ==
    /\ Len(printed[1]) < MaxPrints
    /\ ConsolePrint(1, script[(Len(printed[1]) % Len(script)) + 1])
    /\ last_call' = [op |-> "print", pid |-> 1, ret |-> None, pre |-> None]
    /\ UNCHANGED <<now, procVars, askVars, regVars, restVars>>

\* GET /get_process_output
GetProcessOutput ==
    /\ last_call' = [op |-> "get_output", pid |-> 1,
                     ret |-> Some(get_output(output_collector[1])), pre |-> None]
    /\ UNCHANGED <<now, procVars, outVars, askVars, regVars, restVars>>

\* One iteration of comm_stream_generator: get_update_output on the console.
StreamPoll ==
    LET r == get_update_output(last_output[1], output_collector[1])
    IN  /\ last_output' = [last_output EXCEPT ![1] = r.last_output]
        /\ poll' = [poll EXCEPT ![1] =
                       [since |-> "polled", evicted |-> FALSE,
                        reported |-> IF r.ret # "" THEN r.ret ELSE @.reported]]
        /\ last_call' = [op |-> "get_update_output", pid |-> 1,
                         ret |-> Some(r.ret), pre |-> Some(poll[1])]
        /\ UNCHANGED <<now, procVars, output_collector, printed, askVars, regVars, restVars>>

NextOut == WorkerPrint \/ GetProcessOutput \/ StreamPoll

SpecOut == InitOut /\ [][NextOut]_vars

(***************************************************************************)
(* Claims about the console, checked under SpecOut.                        *)
(***************************************************************************)
Min(a, b) == IF a <= b THEN a ELSE b

\* The fragments a console should retain: the rendering of the last
\* min(n, 50) of the n texts printed on it, oldest first.
Retained(p) ==
    LET n == Len(printed[p])
        m == Min(n, maxlen)
    IN  [i \in 1..m |-> Render(printed[p][n - m + i])]

IsUpdateCall == last_call.op = "get_update_output"
UpdateRet == last_call.ret[1]
UpdatePre == last_call.pre[1]
FullNow == Join(output_collector[last_call.pid])

\* C1 (as claimed): get_update_output returns the whole current output
\* exactly when it differs from the output most recently returned as an
\* update and returns "" otherwise, so once a get_update_output was made
\* every further one with no print in between returns "".
C1_UpdateOnlyOnChange ==
    IsUpdateCall =>
        /\ UpdateRet = (IF FullNow # UpdatePre.reported THEN FullNow ELSE "")
        /\ (UpdatePre.since = "polled" => UpdateRet = "")

C3_BufferIsLastFifty ==
    \A p \in ProcIds :
        /\ Len(output_collector[p]) <= maxlen
        /\ output_collector[p] = Retained(p)

\* 51 prints made, 50 fragments held, the first print gone.
C3_Witness ==
    /\ Len(printed[1]) = maxlen + 1
    /\ Len(output_collector[1]) = maxlen
    /\ output_collector[1][1] = Render(printed[1][2])

\* C4: get_output returns the retained fragments joined in print order,
\* oldest first, and changes neither the buffer nor last_output, so the next
\* get_update_output returns what it would have returned without it.
C4_GetOutputReadsOnly ==
    [][(last_call'.op = "get_output" /\ last_call' # last_call) =>
          /\ last_call'.ret = Some(Join(Retained(last_call'.pid)))
          /\ UNCHANGED <<output_collector, last_output>>
          /\ get_update_output(last_output'[1], output_collector'[1])
               = get_update_output(last_output[1], output_collector[1])]_vars

\* get_output returned "AB" order for a console that printed A then B.
C4_Witness ==
    /\ last_call.op = "get_output"
    /\ Len(printed[1]) = 2
    /\ printed[1] = <<"A", "B">>
    /\ last_call.ret = Some(Render("A") \o Render("B"))

(***************************************************************************)
(* Time, process state and the timeout policy                              *)
(***************************************************************************)

\* check_timeout: 86400 s for a RUNNING process, 300 s otherwise.
RunningTimeout == 86400
IdleTimeout == 300

\* The instants at which the clock is read: time 0 (every process of the
\* model is constructed or refreshed there at the earliest) and the seconds
\* around the two timeouts counted from it.
Instants ==
    {0} \cup {t + d : t \in {IdleTimeout, RunningTimeout}, d \in {-1, 0, 1}}

\* A mutant of check_timeout: the RUNNING branch is missing.
check_timeout_flat(st, t, refreshed) == t - refreshed > IdleTimeout

\* A mutant of check_timeout: the two timeouts are swapped.
check_timeout_swapped(st, t, refreshed) ==
    IF st = RUNNING
    THEN t - refreshed > IdleTimeout
    ELSE t - refreshed > RunningTimeout

\* A mutant of check_timeout: a RUNNING process never times out.
check_timeout_idle_only(st, t, refreshed) ==
    st # RUNNING /\ t - refreshed > IdleTimeout

\* A mutant of check_timeout: the comparison is >= instead of >.
check_timeout_inclusive(st, t, refreshed) ==
    IF st = RUNNING
    THEN t - refreshed >= RunningTimeout
    ELSE t - refreshed >= IdleTimeout

\* check_timeout(process), with time.time() = t.
check_timeout(st, t, refreshed) ==
    IF st = RUNNING
    THEN t - refreshed > RunningTimeout
    ELSE t - refreshed > IdleTimeout

to_running(st) == RUNNING

\* A mutant of to_success: the assignment of to_init.
to_success_as_init(st) == INIT

to_success(st) == SUCCESS
to_failed(st) == Failed

\* to_init has no caller in the sources.
to_init(st) == INIT

\* Multitasking.get_process: the first task with this id, or None.
\* A mutant of get_process: every process made is looked through, also those
\* removed from tasks.
get_process_any(ts, process_id) ==
    LET hits == {p \in 1..made : process_id_of[p] = process_id}
    IN  IF hits = {} THEN None
        ELSE Some(CHOOSE p \in hits : \A q \in hits : p <= q)

get_process(ts, process_id) ==
    LET hits == {i \in 1..Len(ts) : process_id_of[ts[i]] = process_id}
    IN  IF hits = {} THEN None
        ELSE Some(ts[CHOOSE i \in hits : \A j \in hits : i <= j])

\* The clock moves on to a later instant, up to a horizon.
Advance(horizon) ==
    /\ \E t \in Instants : t > now /\ t <= horizon /\ now' = t
    /\ UNCHANGED <<procVars, outVars, askVars, regVars, restVars, last_call>>

Tick == Advance(RunningTimeout + 1)

\* The clock of SpecReg, whose processes all stay in INIT.
TickIdle == Advance(IdleTimeout + 1)

\* A mutant of update_process_refresh_time: the heartbeat also marks the
\* process alive.
update_process_refresh_time_revives(process_id) ==
    /\ LET process == get_process(tasks, process_id)
       IN  IF process = None
           THEN UNCHANGED <<last_refresh_time, alive>>
           ELSE /\ last_refresh_time' = [last_refresh_time EXCEPT ![process[1]] = now]
                /\ alive' = [alive EXCEPT ![process[1]] = TRUE]
    /\ UNCHANGED <<now, tasks, made, phone, state, outVars, askVars,
                   regVars, restVars, last_call>>

\* GET /update_process_refresh_time: an error when get_process finds no
\* process with the id, else last_refresh_time = time.time().
update_process_refresh_time(process_id) ==
    /\ LET process == get_process(tasks, process_id)
       IN  IF process = None
           THEN UNCHANGED last_refresh_time
           ELSE last_refresh_time' = [last_refresh_time EXCEPT ![process[1]] = now]
    /\ UNCHANGED <<now, tasks, made, phone, state, alive, outVars, askVars,
                   regVars, restVars, last_call>>

\* The pipeline, between two of its calls of ask, moves the process along
\* Init -> Running -> Success or Failed.
WorkerAdvance(p) ==
    /\ p <= made
    /\ wk[p].pc = "idle"
    /\ \/ state[p] = INIT /\ state' = [state EXCEPT ![p] = to_running(@)]
       \/ state[p] = RUNNING /\ state' = [state EXCEPT ![p] = to_success(@)]
       \/ state[p] = RUNNING /\ state' = [state EXCEPT ![p] = to_failed(@)]
    /\ UNCHANGED <<now, tasks, made, phone, last_refresh_time, alive,
                   outVars, askVars, regVars, restVars, last_call>>

(***************************************************************************)
(* ChaoxingWebPrompt.ask (web mode) and the /send_value route.  Both run   *)
(* on their own threads, so each access of input_queue is a step:          *)
(*   ask         line 38 (AskCall), 40-43 (AskInsert), 44 (AskRead),       *)
(*               45 (AskPop) or 48-53 (AskTimeout)                         *)
(*   send_value  line 155 (SendCheck), 156 (SendWrite)                     *)
(***************************************************************************)
TIMEOUT == "timeout"

Prompt(k) == "Q" \o ToString(k)
Value(k) == "v" \o ToString(k)

Put(queue, process_id, v) ==
    [x \in (DOMAIN queue) \cup {process_id} |->
        IF x = process_id THEN v ELSE queue[x]]

\* A mutant of pop: the value is read and the slot stays.
pop_keep(queue, process_id) ==
    [ret |-> queue[process_id], queue |-> queue]

\* self.input_queue.pop(process_id): the value and the map without the key.
pop(queue, process_id) ==
    [ret |-> queue[process_id],
     queue |-> [x \in (DOMAIN queue) \ {process_id} |-> queue[x]]]

\* The worker calls ask: a new question when it has none or the last call
\* returned an answer or "timeout", else the same question again.  Line 38.
AskCall(p) ==
    LET fresh == wk[p].q = 0 \/ wk[p].ret # None
        q == IF fresh THEN wk[p].q + 1 ELSE wk[p].q
    IN  /\ p <= made
        /\ wk[p].pc = "idle"
        /\ q <= MaxQuestions
        /\ wk' = [wk EXCEPT ![p] =
                    [pc |-> IF p \notin DOMAIN input_queue THEN "L40" ELSE "L44",
                     q |-> q, ret |-> None]]
        /\ UNCHANGED <<now, procVars, outVars, input_queue, sent, inflight,
                       delivered, posted, regVars, restVars, last_call>>

\* Lines 40-43: the slot is created with None and the prompt is printed.
AskInsert(p) ==
    /\ wk[p].pc = "L40"
    /\ input_queue' = Put(input_queue, p, None)
    /\ ConsolePrint(p, Prompt(wk[p].q))
    /\ wk' = [wk EXCEPT ![p].pc = "L44"]
    /\ UNCHANGED <<now, procVars, sent, inflight, delivered, posted, regVars, restVars, last_call>>

\* Line 44: is the slot's value not None?
AskRead(p) ==
    /\ wk[p].pc = "L44"
    /\ wk' = [wk EXCEPT ![p].pc = IF input_queue[p] # None THEN "L45" ELSE "L48"]
    /\ UNCHANGED <<now, procVars, outVars, input_queue, sent, inflight,
                   delivered, posted, regVars, restVars, last_call>>

\* A mutant of AskPop: taking an answer counts as a refresh.
AskPop_refreshes(p) ==
    LET r == pop(input_queue, p)
    IN  /\ wk[p].pc = "L45"
        /\ input_queue' = r.queue
        /\ wk' = [wk EXCEPT ![p].pc = "idle", ![p].ret = r.ret]
        /\ delivered' = Append(delivered, [pid |-> p, q |-> wk[p].q, value |-> r.ret])
        /\ last_refresh_time' = [last_refresh_time EXCEPT ![p] = now]
        /\ UNCHANGED <<now, tasks, made, phone, state, alive, outVars, sent,
                       inflight, posted, regVars, restVars, last_call>>

\* Line 45: return self.input_queue.pop(process_id)
AskPop(p) ==
    LET r == pop(input_queue, p)
    IN  /\ wk[p].pc = "L45"
        /\ input_queue' = r.queue
        /\ wk' = [wk EXCEPT ![p].pc = "idle", ![p].ret = r.ret]
        /\ delivered' = Append(delivered, [pid |-> p, q |-> wk[p].q, value |-> r.ret])
        /\ UNCHANGED <<now, procVars, outVars, sent, inflight, posted, regVars, restVars, last_call>>

\* Lines 48-53: "timeout" and alive = False when check_timeout, else None.
AskTimeout(p) ==
    /\ wk[p].pc = "L48"
    /\ IF check_timeout(state[p], now, last_refresh_time[p])
       THEN /\ alive' = [alive EXCEPT ![p] = FALSE]
            /\ wk' = [wk EXCEPT ![p].pc = "idle", ![p].ret = Some(TIMEOUT)]
       ELSE /\ UNCHANGED alive
            /\ wk' = [wk EXCEPT ![p].pc = "idle", ![p].ret = None]
    /\ UNCHANGED <<now, tasks, made, phone, state, last_refresh_time, outVars,
                   input_queue, sent, inflight, delivered, posted, regVars, restVars, last_call>>

\* send_value, line 155: the request goes on to write only when the id is a
\* key of input_queue.
SendCheck(process_id) ==
    /\ sent < MaxSends
    /\ sent' = sent + 1
    /\ inflight' = IF process_id \in DOMAIN input_queue
                   THEN inflight \cup {[pid |-> process_id, value |-> Value(sent + 1)]}
                   ELSE inflight
    /\ UNCHANGED <<now, procVars, outVars, input_queue, wk, delivered, posted,
                   regVars, restVars, last_call>>

\* send_value, line 156: input_queue[process_id] = value
SendWrite(r) ==
    /\ r \in inflight
    /\ inflight' = inflight \ {r}
    /\ input_queue' = Put(input_queue, r.pid, Some(r.value))
    /\ posted' = posted \cup {r.value}
    /\ UNCHANGED <<now, procVars, outVars, wk, sent, delivered, regVars, restVars, last_call>>

InitAsk ==
    /\ InitProc
    /\ InitRegVars
    /\ InitRestVars
    /\ InitOutVars
    /\ InitAskVars
    /\ script = <<"A">>
    /\ last_call = NoCall

NextAsk ==
    \/ Tick
    \/ update_process_refresh_time(1)
    \/ WorkerAdvance(1)
    \/ AskCall(1)
    \/ AskInsert(1)
    \/ AskRead(1)
    \/ AskPop(1)
    \/ AskTimeout(1)
    \/ \E process_id \in ProcIds : SendCheck(process_id)
    \/ \E r \in inflight : SendWrite(r)

SpecAsk == InitAsk /\ [][NextAsk]_vars

(***************************************************************************)
(* Claims about the prompt bridge, checked under SpecAsk.                  *)
(***************************************************************************)
CountIn(seq, x) == Cardinality({i \in 1..Len(seq) : seq[i] = x})

Answers(v) == {i \in 1..Len(delivered) : delivered[i].value = Some(v)}
InSlot(v) == \E p \in DOMAIN input_queue : input_queue[p] = Some(v)

\* C5 (as claimed): every question the worker asks gets its prompt printed
\* on the console exactly once: by the first ask call for it, which finds no
\* slot, and never again by a re-invocation.  A question is past that point
\* unless its first call stands before line 40.
C5_EveryQuestionPromptsOnce ==
    \A p \in ProcIds : \A k \in 1..wk[p].q :
        (k < wk[p].q \/ wk[p].pc # "L40") =>
            CountIn(printed[p], Prompt(k)) = 1

\* C6 (as claimed): a value send_value wrote into a slot is returned by
\* exactly one ask call: once it has left the slot it was returned once.
C6_PostedReturnedExactlyOnce ==
    \A v \in posted :
        /\ Cardinality(Answers(v)) <= 1
        /\ (~InSlot(v) => Cardinality(Answers(v)) = 1)

\* C6 (amended): a value send_value wrote is returned by at most one ask
\* call, and the call that returns it removes it from input_queue in the same
\* step, so no later ask returns it again.
C6_PostedReturnedAtMostOnce ==
    \A v \in posted :
        Cardinality(Answers(v)) + (IF InSlot(v) THEN 1 ELSE 0) <= 1

\* A value was returned for question 1 and a later ask call, for question
\* 2, found its own fresh slot empty.
C6_Witness ==
    /\ Len(delivered) = 1
    /\ delivered[1].q = 1
    /\ delivered[1].value = Some(Value(1))
    /\ wk[1].q = 2
    /\ wk[1].pc = "L48"
    /\ 1 \in DOMAIN input_queue
    /\ input_queue[1] = None

\* C7 (as claimed): send_value never creates a slot: a key enters
\* input_queue only in ask's own insertion, with the value None.
C7_OnlyAskCreatesSlots ==
    [][\A p \in ProcIds :
          (p \notin DOMAIN input_queue /\ p \in DOMAIN input_queue') =>
              (wk[p].pc = "L40" /\ input_queue'[p] = None)]_vars

\* C8: an ask call that found no value in the slot returns None while
\* now - last_refresh_time is at most 86400 s for a RUNNING process and at
\* most 300 s for an INIT, SUCCESS or Failed one; beyond that it returns
\* "timeout" and sets alive to False.
C8_AskTimesOutPastThreshold ==
    [][\A p \in ProcIds :
          (wk[p].pc = "L48" /\ wk'[p].pc = "idle") =>
              LET idle == now - last_refresh_time[p]
                  limit == CASE state[p] = "RUNNING" -> 86400
                             [] state[p] \in {"INIT", "SUCCESS", "Failed"} -> 300
              IN  IF idle > limit
                  THEN wk'[p].ret = Some("timeout") /\ alive'[p] = FALSE
                  ELSE wk'[p].ret = None /\ alive'[p] = alive[p]]_vars

\* ask returned "timeout" for a RUNNING process idle for 86401 s.
C8_Witness ==
    /\ wk[1].pc = "idle"
    /\ wk[1].ret = Some(TIMEOUT)
    /\ state[1] = RUNNING
    /\ now - last_refresh_time[1] = RunningTimeout + 1
    /\ alive[1] = FALSE
    /\ 1 \in DOMAIN input_queue
    /\ input_queue[1] = None

(***************************************************************************)
(* Multitasking, the /get_process_id route and GarbageCollector.run        *)
(***************************************************************************)
Keys == {"138", "139"}

\* A mutant of get_process_id: the last matching task instead of the first.
get_process_id_last(ts, phones, key) ==
    LET hits == {i \in 1..Len(ts) : phones[ts[i]] = Some(key)}
    IN  IF hits = {} THEN None
        ELSE Some(process_id_of[ts[CHOOSE i \in hits : \A j \in hits : i >= j]])

\* Multitasking.get_process_id: the id of the first task whose phone is the
\* given one, or None.
get_process_id(ts, phones, key) ==
    LET hits == {i \in 1..Len(ts) : phones[ts[i]] = Some(key)}
    IN  IF hits = {} THEN None
        ELSE Some(process_id_of[ts[CHOOSE i \in hits : \A j \in hits : i <= j]])

\* list.remove(x): the list without its first item equal to x.
Remove(ts, x) ==
    LET first == CHOOSE i \in 1..Len(ts) : ts[i] = x /\ \A j \in 1..(i - 1) : ts[j] # x
    IN  [i \in 1..(Len(ts) - 1) |-> IF i < first THEN ts[i] ELSE ts[i + 1]]

\* Multitasking.create_process: a process object with the given id is
\* constructed (state INIT, refreshed now, alive, no phone: the call passes
\* none), appended to tasks whatever tasks holds, and its thread is started.
create_process(process_id) ==
    LET process == made + 1
    IN  /\ tasks' = Append(tasks, process)
        /\ made' = process
        /\ process_id_of' = [process_id_of EXCEPT ![process] = process_id]
        /\ phone' = [phone EXCEPT ![process] = None]
        /\ state' = [state EXCEPT ![process] = INIT]
        /\ last_refresh_time' = [last_refresh_time EXCEPT ![process] = now]
        /\ alive' = [alive EXCEPT ![process] = TRUE]
        /\ run' = [run EXCEPT ![process] = [pc |-> "start", how |-> "none"]]

\* History of a /get_process_id request: the phone, what
\* Multitasking.get_process_id returned, the tasks and phones it ran over, and
\* whether the request before it had the same phone and ran over the same.
LookupSeen(key, found) ==
    [key |-> key, found |-> found, tasks |-> tasks, phone |-> phone,
     again |-> /\ last_call.op = "get_process_id"
               /\ last_call.pre[1].key = key
               /\ last_call.pre[1].tasks = tasks
               /\ last_call.pre[1].phone = phone]

\* GET /get_process_id?phone=key: the id found for the phone, or else the id
\* of a process created now; uuid4 gives an id no process has.
GetProcessId(key) ==
    LET found == get_process_id(tasks, phone, key)
        seen == LookupSeen(key, found)
    IN  /\ IF found = None
           THEN /\ made < MaxProcs
                /\ create_process(made + 1)
                /\ created_for' = [created_for EXCEPT ![made + 1] = Some(key)]
                /\ last_call' = [op |-> "get_process_id", pid |-> made + 1,
                                 ret |-> Some(made + 1), pre |-> Some(seen)]
           ELSE /\ UNCHANGED <<procVars, created_for, process_id_of, run>>
                /\ last_call' = [op |-> "get_process_id", pid |-> found[1],
                                 ret |-> found, pre |-> Some(seen)]
        /\ UNCHANGED <<now, outVars, askVars, gc, script, stream, sweep>>

\* The pipeline logs the user in and records the phone on the process it
\* was handed (the one the request that created it was made for).
PipelineLogin(p) ==
    /\ p <= made
    /\ phone[p] = None
    /\ phone' = [phone EXCEPT ![p] = created_for[p]]
    /\ UNCHANGED <<now, tasks, made, state, last_refresh_time, alive,
                   outVars, askVars, regVars, restVars, last_call>>

\* GarbageCollector.run, after time.sleep: a new pass over tasks begins.
GcWakeCore ==
    /\ gc.pc = "sleep"
    /\ gc' = [gc EXCEPT !.pc = "iter", !.idx = 0]
    /\ UNCHANGED <<now, procVars, outVars, askVars, created_for, script,
                   process_id_of, run, stream, last_call>>

\* The for loop takes the item at its index, if any, and evaluates
\* check_timeout on it; past the end of the list the thread sleeps.
GcNextCore ==
    /\ gc.pc = "iter"
    /\ IF gc.idx < Len(tasks)
       THEN LET task == tasks[gc.idx + 1]
            IN  gc' = [pc |-> IF check_timeout(state[task], now, last_refresh_time[task])
                              THEN "expired" ELSE "iter",
                       idx |-> gc.idx + 1,
                       task |-> task]
       ELSE gc' = [gc EXCEPT !.pc = "sleep"]
    /\ UNCHANGED <<now, procVars, outVars, askVars, created_for, script,
                   process_id_of, run, stream, last_call>>

\* Lines 554-556: task.alive = False and tasks.remove(task); the loop goes
\* on with its index as it stands.
GcRemoveCore ==
    /\ gc.pc = "expired"
    /\ alive' = [alive EXCEPT ![gc.task] = FALSE]
    /\ tasks' = Remove(tasks, gc.task)
    /\ gc' = [gc EXCEPT !.pc = "iter"]
    /\ UNCHANGED <<now, made, phone, state, last_refresh_time,
                   outVars, askVars, created_for, script, process_id_of, run,
                   stream, last_call>>

\* The collector's steps, with no record kept of its sweeps.
GcWake == GcWakeCore /\ UNCHANGED sweep
GcNext == GcNextCore /\ UNCHANGED sweep
GcRemove == GcRemoveCore /\ UNCHANGED sweep

InitReg ==
    /\ now = 0
    /\ tasks = <<>>
    /\ made = 0
    /\ phone = [p \in ProcIds |-> None]
    /\ state = [p \in ProcIds |-> INIT]
    /\ last_refresh_time = [p \in ProcIds |-> 0]
    /\ alive = [p \in ProcIds |-> TRUE]
    /\ InitRegVars
    /\ InitRestVars
    /\ InitOutVars
    /\ InitAskVars
    /\ script = <<"A">>
    /\ last_call = NoCall

\* SpecReg: the registry starts empty; requests create processes, which
\* stay in INIT, log in, are refreshed and are collected.
NextReg ==
    \/ TickIdle
    \/ \E key \in Keys : GetProcessId(key)
    \/ \E p \in ProcIds : PipelineLogin(p)
    \/ \E p \in ProcIds : update_process_refresh_time(p)
    \/ GcWake
    \/ GcNext
    \/ GcRemove

SpecReg == InitReg /\ [][NextReg]_vars

\* SpecLook: /get_process_id requests arrive while the pipelines log in and
\* the collector sweeps; no page sends a heartbeat.
LookTick ==
    /\ now = 0
    /\ now' = IdleTimeout + 1
    /\ UNCHANGED <<procVars, outVars, askVars, regVars, restVars, last_call>>

NextLook ==
    \/ LookTick
    \/ \E key \in Keys : GetProcessId(key)
    \/ \E p \in ProcIds : PipelineLogin(p)
    \/ GcWake
    \/ GcNext
    \/ GcRemove

SpecLook == InitReg /\ [][NextLook]_vars

\* SpecReap: process 1 is registered at time 0; it goes through its states
\* and is refreshed while the collector sweeps.
InitReap == InitAsk

NextReap ==
    \/ Tick
    \/ update_process_refresh_time(1)
    \/ WorkerAdvance(1)
    \/ GcWake
    \/ GcNext
    \/ GcRemove

SpecReap == InitReap /\ [][NextReap]_vars

(***************************************************************************)
(* Claims about the collector (SpecReap) and the registry (SpecReg).       *)
(***************************************************************************)
InTasks(ts, p) == \E i \in 1..Len(ts) : ts[i] = p

\* C9: the collector judges a record expired exactly when
\* now - last_refresh_time is more than 86400 s for a RUNNING record and more
\* than 300 s for an INIT, SUCCESS or Failed one; a record not judged expired
\* stays, a record leaves tasks only after that judgement, and the step after
\* the judgement sets alive to False and removes the record.
C9_CollectorRemovesIffPastThreshold ==
    [][/\ (gc.pc = "iter" /\ gc.idx < Len(tasks) /\ gc' # gc) =>
              LET task == tasks[gc.idx + 1]
                  idle == now - last_refresh_time[task]
                  limit == CASE state[task] = "RUNNING" -> 86400
                             [] state[task] \in {"INIT", "SUCCESS", "Failed"} -> 300
              IN  /\ (gc'.pc = "expired" /\ gc'.task = task) <=> (idle > limit)
                  /\ (gc'.pc # "expired") <=> (idle <= limit)
                  /\ tasks' = tasks /\ alive' = alive
       /\ \A p \in ProcIds :
              (InTasks(tasks, p) /\ ~InTasks(tasks', p)) =>
                  (gc.pc = "expired" /\ gc.task = p)
       /\ (gc.pc = "expired" /\ gc' # gc) =>
              (~InTasks(tasks', gc.task) /\ alive'[gc.task] = FALSE)]_vars

\* A RUNNING record idle for 86401 s was judged, marked dead and removed.
C9_Witness ==
    /\ tasks = <<>>
    /\ gc.task = 1
    /\ state[1] = RUNNING
    /\ now - last_refresh_time[1] = RunningTimeout + 1
    /\ alive[1] = FALSE

\* C10 (as claimed): /get_process_id is idempotent: while the process a
\* request with some phone created is in tasks, no request with the same
\* phone creates another, so no two tasks were created for the same phone.
C10_SamePhoneSameProcess ==
    \A i, j \in 1..Len(tasks) :
        i # j => created_for[tasks[i]] # created_for[tasks[j]]

(***************************************************************************)
(* SpecCreate: Multitasking.create_process called with any process id,     *)
(* beside heartbeats and the collector.                                    *)
(***************************************************************************)

\* multitasking.create_process(process_id)
CreateProcess(process_id) ==
    /\ made < MaxProcs
    /\ create_process(process_id)
    /\ UNCHANGED <<now, outVars, askVars, regVars, script, stream, sweep, last_call>>

NextCreate ==
    \/ TickIdle
    \/ \E process_id \in ProcIds : CreateProcess(process_id)
    \/ \E process_id \in ProcIds : update_process_refresh_time(process_id)
    \/ GcWake
    \/ GcNext
    \/ GcRemove

SpecCreate == InitReg /\ [][NextCreate]_vars

\* C11 (as claimed): create_process fails for an id some task already has, so
\* no two tasks ever have the same process id.
C11_ProcessIdsUnique ==
    \A i, j \in 1..Len(tasks) :
        i # j => process_id_of[tasks[i]] # process_id_of[tasks[j]]

IsLookup(call) == call.op = "get_process_id"

\* A /get_process_id request completes in this step.
LookupStep == IsLookup(last_call') /\ last_call' # last_call

SessionLost == "[red]session lost"
ReloginFailed == "[red]relogin failed"
Traceback == "traceback"
FaultNotice == "[bold red]error"
ChapterPanel == "[red]chapter not opened"
DoneNotice == "[green]done"

RECURSIVE collect_outputs(_, _)
\* Several prints in a row on one console.
collect_outputs(buf, texts) ==
    IF texts = <<>> THEN buf
    ELSE collect_outputs(collect_output(buf, Head(texts)), Tail(texts))

ConsolePrints(p, texts) ==
    /\ output_collector' =
          [output_collector EXCEPT ![p] = collect_outputs(@, texts)]
    /\ printed' = [printed EXCEPT ![p] = @ \o texts]
    /\ poll' = [poll EXCEPT ![p].since = "printed",
                            ![p].evicted =
                                \/ Len(output_collector[p]) + Len(texts) > maxlen
                                \/ (poll[p].since = "printed" /\ @)]
    /\ UNCHANGED last_output

Ended(how) == [pc |-> "ended", how |-> how]

\* Line 465: run calls dialog.logo first; the state is as __init__ left it.
RunEnter(p) ==
    /\ p <= made
    /\ run[p].pc = "start"
    /\ run' = [run EXCEPT ![p].pc = "L465"]
    /\ UNCHANGED <<now, procVars, outVars, askVars, regVars, script,
                   process_id_of, stream, sweep, last_call>>

\* Lines 476-480: the stored session is no longer valid and the relogin
\* fails: two prints and sys.exit(), which ends this thread only.
RunReloginFails(p) ==
    /\ run[p].pc = "L465"
    /\ ConsolePrints(p, <<SessionLost, ReloginFailed>>)
    /\ run' = [run EXCEPT ![p] = Ended("exit")]
    /\ UNCHANGED <<now, procVars, askVars, regVars, script,
                   process_id_of, stream, sweep, last_call>>

\* A call of lines 465-487 (sessions_load, dialog.select_session,
\* api.accinfo, dialog.login, dialog.accinfo) raises: no try encloses these
\* lines, so the exception leaves run and the thread ends.
RunFaultBeforeTry(p) ==
    /\ run[p].pc = "L465"
    /\ run' = [run EXCEPT ![p] = Ended("uncaught")]
    /\ UNCHANGED <<now, procVars, outVars, askVars, regVars, script,
                   process_id_of, stream, sweep, last_call>>

\* Lines 485-488: the login is over and the try block is entered.
RunTry(p) ==
    /\ run[p].pc = "L465"
    /\ run' = [run EXCEPT ![p].pc = "L488"]
    /\ UNCHANGED <<now, procVars, outVars, askVars, regVars, script,
                   process_id_of, stream, sweep, last_call>>

\* Lines 518-525: an Exception raised inside the try block: print_exception
\* and the notice are printed on the console and run returns.
RunFaultInTry(p) ==
    /\ run[p].pc = "L488"
    /\ ConsolePrints(p, <<Traceback, FaultNotice>>)
    /\ run' = [run EXCEPT ![p] = Ended("caught")]
    /\ UNCHANGED <<now, procVars, askVars, regVars, script,
                   process_id_of, stream, sweep, last_call>>

\* fuck_task_worker, lines 307-319: the panel is put on the layout, which
\* Live prints a last time on its way out, and sys.exit() raises SystemExit
\* through the except clauses of run.
RunChapterNotOpened(p) ==
    /\ run[p].pc = "L488"
    /\ ConsolePrints(p, <<ChapterPanel>>)
    /\ run' = [run EXCEPT ![p] = Ended("exit")]
    /\ UNCHANGED <<now, procVars, askVars, regVars, script,
                   process_id_of, stream, sweep, last_call>>

\* Lines 529-532: the try block ended without an exception.
RunFinish(p) ==
    /\ run[p].pc = "L488"
    /\ ConsolePrints(p, <<DoneNotice>>)
    /\ run' = [run EXCEPT ![p] = Ended("finished")]
    /\ UNCHANGED <<now, procVars, askVars, regVars, script,
                   process_id_of, stream, sweep, last_call>>

\* The pipeline moves the state of the process it was handed, while it has
\* control.
PipelineAdvance(p) ==
    /\ run[p].pc \in {"L465", "L488"}
    /\ WorkerAdvance(p)

\* SpecRun: two processes were created at time 0; their threads go through
\* run while the collector sweeps.
InitRun ==
    /\ now = 0
    /\ tasks = <<1, 2>>
    /\ made = 2
    /\ phone = [p \in ProcIds |-> None]
    /\ state = [p \in ProcIds |-> INIT]
    /\ last_refresh_time = [p \in ProcIds |-> 0]
    /\ alive = [p \in ProcIds |-> TRUE]
    /\ InitRegVars
    /\ InitRestVars
    /\ InitOutVars
    /\ InitAskVars
    /\ script = <<"A">>
    /\ last_call = NoCall

NextRun ==
    \/ TickIdle
    \/ \E p \in ProcIds : RunEnter(p)
    \/ \E p \in ProcIds : RunReloginFails(p)
    \/ \E p \in ProcIds : RunFaultBeforeTry(p)
    \/ \E p \in ProcIds : RunTry(p)
    \/ \E p \in ProcIds : RunFaultInTry(p)
    \/ \E p \in ProcIds : RunChapterNotOpened(p)
    \/ \E p \in ProcIds : RunFinish(p)
    \/ \E p \in ProcIds : PipelineAdvance(p)
    \/ GcWake
    \/ GcNext
    \/ GcRemove

SpecRun == InitRun /\ [][NextRun]_vars

Faults == {"uncaught", "caught", "exit"}

\* C13 (as claimed): the step in which a fatal fault ends the run of a
\* process appends a failure notice to that process's console, leaves tasks,
\* the alive flags and the collector as they are, and changes nothing of any
\* other process.
C13_FaultEndsOnlyItsWorker ==
    [][\A p \in ProcIds :
          (run[p].pc # "ended" /\ run'[p].pc = "ended" /\ run'[p].how \in Faults) =>
              /\ Len(printed'[p]) > Len(printed[p])
              /\ Len(output_collector'[p]) > Len(output_collector[p])
              /\ tasks' = tasks
              /\ alive' = alive
              /\ gc' = gc
              /\ \A q \in ProcIds \ {p} :
                    /\ state'[q] = state[q]
                    /\ output_collector'[q] = output_collector[q]
                    /\ run'[q] = run[q]]_vars

(***************************************************************************)
(* comm_stream_generator, the body of a /comm_stream response for process  *)
(* 1.  stream.pc is "closed" (no request), "L58" (top of the loop), "L65"  *)
(* (the message is built and yielded), "L66" (time.sleep) or "ended" (an   *)
(* exception left the generator); lost says the client has disconnected;   *)
(* reads and msgs count the get_update_output calls and the messages.      *)
(***************************************************************************)

\* GET /comm_stream?process_id=1
StreamOpen ==
    /\ stream.pc = "closed"
    /\ stream' = [stream EXCEPT !.pc = "L58"]
    /\ UNCHANGED <<now, procVars, outVars, askVars, regVars, script,
                   process_id_of, run, sweep, last_call>>

\* Line 58: get_process(process_id).console.get_update_output(); with no
\* such process the attribute access on None raises out of the generator.
StreamRead ==
    LET process == get_process(tasks, 1)
        r == get_update_output(last_output[1], output_collector[1])
    IN  /\ stream.pc = "L58"
        /\ stream.reads < MaxReads
        /\ IF process = None
           THEN /\ stream' = [stream EXCEPT !.pc = "ended"]
                /\ UNCHANGED <<last_output, poll, last_call>>
           ELSE /\ stream' = [stream EXCEPT !.pc = "L65", !.reads = @ + 1]
                /\ last_output' = [last_output EXCEPT ![1] = r.last_output]
                /\ poll' = [poll EXCEPT ![1] =
                               [since |-> "polled", evicted |-> FALSE,
                                reported |-> IF r.ret # "" THEN r.ret ELSE @.reported]]
                /\ last_call' = [op |-> "get_update_output", pid |-> 1,
                                 ret |-> Some(r.ret), pre |-> Some(poll[1])]
        /\ UNCHANGED <<now, procVars, output_collector, printed, askVars,
                       regVars, script, process_id_of, run, sweep>>

\* Lines 60-65: the message {"update": ..., "output": ...} is yielded.
StreamYield ==
    /\ stream.pc = "L65"
    /\ stream' = [stream EXCEPT !.pc = "L66", !.msgs = @ + 1]
    /\ UNCHANGED <<now, procVars, outVars, askVars, regVars, script,
                   process_id_of, run, sweep, last_call>>

\* Line 66: time.sleep(2), then the next turn of while True.
StreamSleep ==
    /\ stream.pc = "L66"
    /\ stream' = [stream EXCEPT !.pc = "L58"]
    /\ UNCHANGED <<now, procVars, outVars, askVars, regVars, script,
                   process_id_of, run, sweep, last_call>>

\* Lines 67-69: ConnectionResetError or BrokenPipeError inside the try: the
\* handler prints "Client disconnected" on the server's stdout and the while
\* loop, which it does not leave, takes its next turn.
StreamDisconnect ==
    /\ stream.pc \in {"L65", "L66"}
    /\ ~stream.lost
    /\ stream' = [stream EXCEPT !.pc = "L58", !.lost = TRUE]
    /\ UNCHANGED <<now, procVars, outVars, askVars, regVars, script,
                   process_id_of, run, sweep, last_call>>

NextStream ==
    \/ WorkerPrint
    \/ StreamOpen
    \/ StreamRead
    \/ StreamYield
    \/ StreamSleep
    \/ StreamDisconnect

SpecStream == InitAsk /\ [][NextStream]_vars

\* C14 (as claimed): the disconnect changes nothing of the worker, and once
\* the client has disconnected the generator makes no further
\* get_update_output call and yields no further message.
C14_StreamEndsOnDisconnect ==
    [][/\ (~stream.lost /\ stream'.lost) =>
             UNCHANGED <<state, output_collector, alive, last_refresh_time>>
       /\ stream.lost =>
             /\ stream'.reads = stream.reads
             /\ stream'.msgs = stream.msgs
             /\ last_output' = last_output]_vars

(***************************************************************************)
(* SpecLive: processes are created, refreshed and driven through their     *)
(* states while the collector sweeps; from the instant Far on no client    *)
(* sends anything.  The collector's thread and the clock always go on.     *)
(***************************************************************************)

\* An instant at which every record refreshed up to IdleTimeout + 1 is past
\* both timeouts.
Far == (IdleTimeout + 1) + (RunningTimeout + 1)

LiveInstants == {0, IdleTimeout + 1, Far}

TickLive ==
    /\ \E t \in LiveInstants : t > now /\ now' = t
    /\ UNCHANGED <<procVars, outVars, askVars, regVars, restVars, last_call>>

\* app.create_process: a process with a fresh uuid4 id.
LiveCreate ==
    /\ now < Far
    /\ CreateProcess(made + 1)

LiveHeartbeat(process_id) ==
    /\ now < Far
    /\ process_id <= made
    /\ update_process_refresh_time(process_id)

NextLive ==
    \/ TickLive
    \/ LiveCreate
    \/ \E process_id \in ProcIds : LiveHeartbeat(process_id)
    \/ \E p \in ProcIds : WorkerAdvance(p)
    \/ GcWake
    \/ GcNext
    \/ GcRemove

SpecLive ==
    /\ InitReg
    /\ [][NextLive]_vars
    /\ WF_vars(TickLive)
    /\ WF_vars(GcWake)
    /\ WF_vars(GcNext)
    /\ WF_vars(GcRemove)

\* C15: a record whose client has stopped sending heartbeats is eventually
\* removed by the collector, whatever its state; the step that completes a
\* process (SUCCESS or Failed) removes nothing, a record leaves tasks only in
\* the collector's removal of a record it judged timed out, and tasks never
\* holds a process id twice.
C15_SilentRecordsAreCollected ==
    /\ \A p \in ProcIds :
          (InTasks(tasks, p) /\ now = Far) ~> ~InTasks(tasks, p)
    /\ [][\A p \in ProcIds :
             /\ (state'[p] # state[p] /\ state'[p] \in {SUCCESS, Failed}) =>
                    tasks' = tasks
             /\ (InTasks(tasks, p) /\ ~InTasks(tasks', p)) =>
                    (gc.pc = "expired" /\ gc.task = p /\ ~alive'[p])]_vars
    /\ [](\A i, j \in 1..Len(tasks) :
             i # j => process_id_of[tasks[i]] # process_id_of[tasks[j]])

\* Both records were collected after their clients went silent: one
\* completed, one still RUNNING.
C15_Witness ==
    /\ now = Far
    /\ made = 2
    /\ tasks = <<>>
    /\ state[1] = SUCCESS
    /\ state[2] = RUNNING
    /\ ~alive[1]
    /\ ~alive[2]

(***************************************************************************)
(* SpecSweep: the registry under a clock that shows the collector's        *)
(* period.  GarbageCollector.run sleeps check_interval = 5 s between two   *)
(* sweeps, and the instants of this clock lie a minute or more apart: the  *)
(* clock leaves an instant only after a sweep that began at it has gone    *)
(* through tasks without removing anything and the collector sleeps.       *)
(***************************************************************************)
FourMinutes == 4 * 60
SixMinutes == 6 * 60

SweepInstants == {0, FourMinutes, IdleTimeout + 1, SixMinutes}

\* Idle for more than the timeout of its state, at instant t.
TimedOutAt(p, t) ==
    t - last_refresh_time[p] > (IF state[p] = "RUNNING" THEN 86400 ELSE 300)

SweepTick ==
    /\ gc.pc = "sleep"
    /\ sweep.clean = now
    /\ \E t \in SweepInstants :
          /\ t > now
          /\ \A u \in SweepInstants : u > now => t <= u
          /\ now' = t
    /\ UNCHANGED <<procVars, outVars, askVars, regVars, restVars, last_call>>

SweepWake ==
    /\ GcWakeCore
    /\ sweep' = [sweep EXCEPT
                    !.woke = now,
                    !.removed = FALSE,
                    !.due = {<<p, state[p]>> :
                                p \in {q \in ProcIds : InTasks(tasks, q) /\ TimedOutAt(q, now)}}]

SweepNext ==
    /\ GcNextCore
    /\ sweep' = IF gc.idx < Len(tasks)
                THEN sweep
                ELSE [woke |-> Never, due |-> {}, removed |-> FALSE,
                      clean |-> IF sweep.removed THEN sweep.clean ELSE sweep.woke]

SweepRemove ==
    /\ GcRemoveCore
    /\ sweep' = [sweep EXCEPT !.removed = TRUE]

NextSweep ==
    \/ SweepTick
    \/ GetProcessId("138")
    \/ \E p \in ProcIds : PipelineLogin(p)
    \/ \E process_id \in ProcIds : update_process_refresh_time(process_id)
    \/ \E p \in ProcIds : WorkerAdvance(p)
    \/ SweepWake
    \/ SweepNext
    \/ SweepRemove

SpecSweep == InitReg /\ [][NextSweep]_vars

\* C17 (as claimed): when a sweep ends, every task that was timed out at the
\* instant the sweep began (and was neither refreshed nor moved to another
\* state since) has been marked dead and removed by that sweep; and the
\* collector never removes a task that is no longer in tasks.
C17_SweepRemovesEveryExpired ==
    [][/\ (gc.pc = "iter" /\ gc'.pc = "sleep") =>
             \A d \in sweep.due :
                 (state[d[1]] = d[2] /\ TimedOutAt(d[1], sweep.woke)) =>
                     (~InTasks(tasks, d[1]) /\ ~alive[d[1]])
       /\ gc.pc = "expired" => InTasks(tasks, gc.task)]_vars

\* The requests of the scenario: /get_process_id at time 0.
ScenarioGetProcessId ==
    /\ now = 0
    /\ GetProcessId("138")

\* SpecScenario: processes are created at time 0 and get no heartbeat.
NextScenario ==
    \/ SweepTick
    \/ ScenarioGetProcessId
    \/ \E p \in ProcIds : PipelineLogin(p)
    \/ \E p \in ProcIds : WorkerAdvance(p)
    \/ SweepWake
    \/ SweepNext
    \/ SweepRemove

SpecScenario == InitReg /\ [][NextScenario]_vars

\* A process a /get_process_id request created at time 0 and no heartbeat
\* has refreshed since.
CreatedAtZero(p) ==
    /\ p <= made
    /\ created_for[p] # None
    /\ last_refresh_time[p] = 0

\* Multitasking.get_process_id for the phone p was created for returns p.
LookupReturns(p) ==
    get_process_id(tasks, phone, created_for[p][1]) = Some(process_id_of[p])

C18_RunningWhilePipelineRuns ==
    \A p \in ProcIds :
        /\ run[p].pc \in {"L465", "L488"} => state[p] # INIT
        /\ run[p] = Ended("finished") => state[p] = SUCCESS

C20_SlotOnlyWhileWaiting ==
    \A p \in ProcIds :
        (wk[p].pc = "idle" /\ wk[p].ret # None) => p \notin DOMAIN input_queue

\* SpecDead: the prompt bridge of SpecAsk with the collector sweeping.
NextDead ==
    \/ Tick
    \/ update_process_refresh_time(1)
    \/ WorkerAdvance(1)
    \/ AskCall(1)
    \/ AskInsert(1)
    \/ AskRead(1)
    \/ AskPop(1)
    \/ AskTimeout(1)
    \/ \E process_id \in ProcIds : SendCheck(process_id)
    \/ \E r \in inflight : SendWrite(r)
    \/ GcWake
    \/ GcNext
    \/ GcRemove

SpecDead == InitAsk /\ [][NextDead]_vars

\* C21 (as claimed): a process whose alive is False is no longer in tasks, or
\* its idle time is past the threshold of its state (check_timeout is true
\* of it), whatever ask timeouts, heartbeats and sweeps have happened.
C21_DeadIsRemovedOrExpired ==
    \A p \in ProcIds :
        (p <= made /\ ~alive[p]) =>
            \/ ~InTasks(tasks, p)
            \/ check_timeout(state[p], now, last_refresh_time[p])

\* SpecMono: one process is created at time 0 and goes through its states;
\* its worker asks and its page answers, pages send heartbeats for any id
\* and the collector sweeps.
MonoCreate ==
    /\ now = 0
    /\ made = 0
    /\ CreateProcess(1)

NextMono ==
    \/ TickLive
    \/ MonoCreate
    \/ \E process_id \in ProcIds : update_process_refresh_time(process_id)
    \/ WorkerAdvance(1)
    \/ AskCall(1)
    \/ AskInsert(1)
    \/ AskRead(1)
    \/ AskPop(1)
    \/ AskTimeout(1)
    \/ SendCheck(1)
    \/ \E r \in inflight : SendWrite(r)
    \/ GcWake
    \/ GcNext
    \/ GcRemove

SpecMono == InitReg /\ [][NextMono]_vars

\* C22: alive is True when a process is created, and no step sets an alive
\* that is False back to True.
C22_AliveIsMonotonic ==
    [][\A p \in ProcIds :
          /\ (made < p /\ p <= made') => alive'[p]
          /\ (p <= made /\ ~alive[p]) => ~alive'[p]]_vars

\* The worker's ask timed out and set alive to False; a heartbeat came
\* afterwards and the process, still in tasks, is still not alive.
C22_Witness ==
    /\ InTasks(tasks, 1)
    /\ ~alive[1]
    /\ now > 0
    /\ last_refresh_time[1] = now

(***************************************************************************)
(* The /update_process_refresh_time route with its response on record.     *)
(***************************************************************************)
IsRefresh(call) == call.op = "update_process_refresh_time"

\* Lines 136-140: the status of the response.
refresh_status(ts, process_id) ==
    IF get_process(ts, process_id) = None THEN "error" ELSE "success"

\* GET /update_process_refresh_time, as update_process_refresh_time above,
\* with the request and its response kept in last_call; pre alternates so
\* that two requests in a row differ.
RefreshRequest(process_id) ==
    /\ LET process == get_process(tasks, process_id)
       IN  IF process = None
           THEN UNCHANGED last_refresh_time
           ELSE last_refresh_time' = [last_refresh_time EXCEPT ![process[1]] = now]
    /\ last_call' = [op |-> "update_process_refresh_time", pid |-> process_id,
                     ret |-> Some(refresh_status(tasks, process_id)),
                     pre |-> Some(IF IsRefresh(last_call)
                                  THEN 1 - last_call.pre[1] ELSE 0)]
    /\ UNCHANGED <<now, tasks, made, phone, state, alive, outVars, askVars,
                   regVars, restVars>>

\* The routes that read the console of process 1; with no such process the
\* attribute access on None raises and the request changes nothing.
QuietGetOutput ==
    /\ get_process(tasks, 1) # None
    /\ GetProcessOutput

QuietStreamPoll ==
    /\ get_process(tasks, 1) # None
    /\ StreamPoll

\* SpecQuiet: one process is created at time 0; its worker asks, printing
\* its prompts, pages read its console, answer and send heartbeats, and the
\* collector sweeps.
NextQuiet ==
    \/ LookTick
    \/ MonoCreate
    \/ RefreshRequest(1)
    \/ AskCall(1)
    \/ AskInsert(1)
    \/ AskRead(1)
    \/ AskPop(1)
    \/ AskTimeout(1)
    \/ SendCheck(1)
    \/ \E r \in inflight : SendWrite(r)
    \/ QuietGetOutput
    \/ QuietStreamPoll
    \/ GcWake
    \/ GcNext
    \/ GcRemove

SpecQuiet == InitReg /\ [][NextQuiet]_vars

\* A request of /update_process_refresh_time for the id is served in this
\* step.
RefreshStep(process_id) ==
    /\ last_call' # last_call
    /\ IsRefresh(last_call')
    /\ last_call'.pid = process_id

\* C23: last_refresh_time of a process is set when the process is made and
\* changes only in a step that serves /update_process_refresh_time for its
\* id: prints, ask, send_value, get_output, get_update_output and the
\* collector leave it as it is.
C23_OnlyHeartbeatRefreshes ==
    [][\A p \in ProcIds :
          last_refresh_time'[p] # last_refresh_time[p] =>
              \/ made < p /\ p <= made'
              \/ p <= made /\ RefreshStep(process_id_of[p])]_vars

\* The process printed, no heartbeat came for it, and the collector removed
\* it past the threshold of its state.
C23_Witness ==
    /\ made = 1
    /\ Len(printed[1]) > 0
    /\ last_refresh_time[1] = 0
    /\ now = IdleTimeout + 1
    /\ ~InTasks(tasks, 1)
    /\ ~alive[1]

\* SpecBeat: processes are created at time 0 and go through their states;
\* pages send heartbeats for any id, also ids never given out and ids of
\* processes the collector has removed.
BeatCreate ==
    /\ now = 0
    /\ CreateProcess(made + 1)

NextBeat ==
    \/ LookTick
    \/ BeatCreate
    \/ \E process_id \in ProcIds : RefreshRequest(process_id)
    \/ \E p \in ProcIds : WorkerAdvance(p)
    \/ GcWake
    \/ GcNext
    \/ GcRemove

SpecBeat == InitReg /\ [][NextBeat]_vars

\* No process in tasks has the id.
Unregistered(process_id) ==
    \A i \in 1..Len(tasks) : process_id_of[tasks[i]] # process_id

\* C24: a request of /update_process_refresh_time for an id no process in
\* tasks has, never created or removed by the collector, is answered with
\* the status "error", creates no process, puts none back into tasks and
\* changes no process's last_refresh_time, state or alive.
C24_HeartbeatForUnknownIdIsAnError ==
    [][\A process_id \in ProcIds :
          (RefreshStep(process_id) /\ Unregistered(process_id)) =>
              /\ last_call'.ret = Some("error")
              /\ tasks' = tasks
              /\ made' = made
              /\ last_refresh_time' = last_refresh_time
              /\ state' = state
              /\ alive' = alive]_vars

\* Process 1 was removed by the collector and a heartbeat for its id was
\* answered with "error" afterwards, while process 2 is still in tasks.
C24_Witness ==
    /\ made >= 2
    /\ ~InTasks(tasks, 1)
    /\ InTasks(tasks, 2)
    /\ ~alive[1]
    /\ IsRefresh(last_call)
    /\ last_call.pid = 1
    /\ last_call.ret = Some("error")
    /\ last_refresh_time[1] < now

====
